---- MODULE Spec2Model ----
(***************************************************************************)
(* Model of junior/python/main.py: the panel counter calculate_panels and  *)
(* the JSON driven harness run_tests.                                      *)
(*                                                                         *)
(* calculate_panels is modelled twice from the same helper operators: as   *)
(* the operator calculate_panels (the value of one whole call) and as a    *)
(* sequence of steps (Normalize, Guard, Option1, Option2, Return) that     *)
(* keeps the locals x, y, a, b, case1, left1, case2, left2 in the state.   *)
(*                                                                         *)
(* Spec      : one direct call of calculate_panels on arbitrary integers.  *)
(* SpecTests : main() -> run_tests() over a loaded list of test cases.     *)
(***************************************************************************)
EXTENDS Integers, Sequences, FiniteSets, TLC

VARIABLES
    panel_width, panel_height, roof_width, roof_height,  \* arguments
    x, y, a, b,                  \* normalized roof and panel sides
    case1, left1, case2, left2,  \* locals of the two options
    ret,                         \* value returned by calculate_panels
    raised,                      \* TRUE once a ZeroDivisionError was raised
    pc,                          \* position in calculate_panels / run_tests
    test_cases,                  \* run_tests: list built from the JSON file
    i,                           \* run_tests: enumerate index (from 1)
    output                       \* run_tests: one printed block per test

args == <<panel_width, panel_height, roof_width, roof_height>>
locals == <<x, y, a, b, case1, left1, case2, left2>>
harness == <<test_cases, i, output>>
vars == <<panel_width, panel_height, roof_width, roof_height,
          x, y, a, b, case1, left1, case2, left2, ret, raised, pc,
          test_cases, i, output>>

----------------------------------------------------------------------------
(* Bounds *)

\* largest dimension a caller passes
MaxDim == 8
\* the smallest dimension a caller passes is 0 - NegDim
NegDim == 1
\* longest test case list the harness loads
MaxCases == 2

Dim == (0 - NegDim)..MaxDim

----------------------------------------------------------------------------
(* Python builtins used by the code *)

Max2(m, n) == IF m >= n THEN m ELSE n
Min2(m, n) == IF m <= n THEN m ELSE n

\* sorted((m, n)) of a pair: ascending
SortedAsGiven(m, n) == <<m, n>>
sorted(m, n) == IF m <= n THEN <<m, n>> ELSE <<n, m>>

\* n // d for d # 0 (floor division, also for negative operands);
\* d = 0 raises ZeroDivisionError, see DivRaises
FloorDiv(n, d) == IF d > 0 THEN n \div d ELSE (0 - n) \div (0 - d)

\* n // d raises ZeroDivisionError
DivRaises(d) == d = 0

----------------------------------------------------------------------------
(* The statements of calculate_panels as operators *)

\* line 14: if min(x, y, a, b) <= 0
GuardLtZero(vx, vy, va, vb) == Min2(Min2(vx, vy), Min2(va, vb)) < 0
GuardEqZero(vx, vy, va, vb) == Min2(Min2(vx, vy), Min2(va, vb)) = 0
GuardLeqOne(vx, vy, va, vb) == Min2(Min2(vx, vy), Min2(va, vb)) <= 1
Degenerate(vx, vy, va, vb) == Min2(Min2(vx, vy), Min2(va, vb)) <= 0

\* line 20: left1 = x - (x // a) * a
Left1NoTimes(vx, va) == vx - FloorDiv(vx, va)
Left1Of(vx, va) == vx - FloorDiv(vx, va) * va

\* lines 19-23: case1
Case1GridMod(vx, vy, va, vb) ==
    LET grid == FloorDiv(vx, va) * (vy % vb)
        left == Left1Of(vx, va)
    IN  IF left >= vb
        THEN grid + FloorDiv(vy, va) * FloorDiv(left, vb)
        ELSE grid
Case1Of(vx, vy, va, vb) ==
    LET grid == FloorDiv(vx, va) * FloorDiv(vy, vb)
        left == Left1Of(vx, va)
    IN  IF left >= vb
        THEN grid + FloorDiv(vy, va) * FloorDiv(left, vb)
        ELSE grid

\* line 27: left2 = y - (y // a) * a
Left2NoTimes(vy, va) == vy - FloorDiv(vy, va)
Left2Of(vy, va) == vy - FloorDiv(vy, va) * va

\* lines 26-30: case2
Case2NoFill(vx, vy, va, vb) == FloorDiv(vx, vb) * FloorDiv(vy, va)
Case2Of(vx, vy, va, vb) ==
    LET grid == FloorDiv(vx, vb) * FloorDiv(vy, va)
        left == Left2Of(vy, va)
    IN  IF left >= vb
        THEN grid + FloorDiv(vx, va) * FloorDiv(left, vb)
        ELSE grid

\* line 33: return max(case1, case2)
ResultCase1Only(c1, c2) == c1
ResultOf(c1, c2) == Max2(c1, c2)

\* One whole call: [raised |-> a ZeroDivisionError escaped, value |-> the
\* returned integer (meaningful only when raised is FALSE)]
calculate_panels(pw, ph, rw, rh) ==
    LET roof == sorted(rw, rh)
        panel == sorted(pw, ph)
        vy == roof[1]
        vx == roof[2]
        vb == panel[1]
        va == panel[2]
    IN  IF Degenerate(vx, vy, va, vb)
        THEN [raised |-> FALSE, value |-> 0]
        ELSE IF DivRaises(va) \/ DivRaises(vb)
             THEN [raised |-> TRUE, value |-> 0]
             ELSE [raised |-> FALSE,
                   value |-> ResultOf(Case1Of(vx, vy, va, vb),
                                      Case2Of(vx, vy, va, vb))]

----------------------------------------------------------------------------
(* calculate_panels step by step *)

\* state at the entry of calculate_panels: locals unassigned (held as 0,
\* never read before their assignment)
Entry ==
    /\ x = 0 /\ y = 0 /\ a = 0 /\ b = 0
    /\ case1 = 0 /\ left1 = 0 /\ case2 = 0 /\ left2 = 0
    /\ ret = 0 /\ raised = FALSE

\* lines 9 and 12
Normalize ==
    /\ pc = "normalize"
    /\ y' = sorted(roof_width, roof_height)[1]
    /\ x' = sorted(roof_width, roof_height)[2]
    /\ b' = sorted(panel_width, panel_height)[1]
    /\ a' = sorted(panel_width, panel_height)[2]
    /\ pc' = "guard"
    /\ UNCHANGED <<args, case1, left1, case2, left2, ret, raised, harness>>

\* lines 14-16
Guard ==
    /\ pc = "guard"
    /\ IF Degenerate(x, y, a, b)
       THEN ret' = 0 /\ pc' = "returned"
       ELSE ret' = ret /\ pc' = "option1"
    /\ UNCHANGED <<args, locals, raised, harness>>

\* lines 19-23; the first division of line 19 raises when a or b is 0
Option1 ==
    /\ pc = "option1"
    /\ IF DivRaises(a) \/ DivRaises(b)
       THEN /\ raised' = TRUE
            /\ pc' = "raised"
            /\ UNCHANGED <<case1, left1>>
       ELSE /\ case1' = Case1Of(x, y, a, b)
            /\ left1' = Left1Of(x, a)
            /\ pc' = "option2"
            /\ UNCHANGED raised
    /\ UNCHANGED <<args, x, y, a, b, case2, left2, ret, harness>>

\* lines 26-30
Option2 ==
    /\ pc = "option2"
    /\ case2' = Case2Of(x, y, a, b)
    /\ left2' = Left2Of(y, a)
    /\ pc' = "return"
    /\ UNCHANGED <<args, x, y, a, b, case1, left1, ret, raised, harness>>

\* line 33
Return ==
    /\ pc = "return"
    /\ ret' = ResultOf(case1, case2)
    /\ pc' = "returned"
    /\ UNCHANGED <<args, locals, raised, harness>>

Init ==
    /\ panel_width \in Dim /\ panel_height \in Dim
    /\ roof_width \in Dim /\ roof_height \in Dim
    /\ Entry
    /\ pc = "normalize"
    /\ test_cases = <<>> /\ i = 0 /\ output = <<>>

Next == Normalize \/ Guard \/ Option1 \/ Option2 \/ Return

Spec == Init /\ [][Next]_vars

----------------------------------------------------------------------------
(* run_tests *)

\* inputs of the test cases a test_cases.json may hold
TestInputs == {<<1, 1, 5, 5>>, <<2, 1, 4, 2>>, <<3, 1, 5, 5>>, <<2, 1, 0, 5>>}
\* "expected" values a test_cases.json may hold
TestExpected == {0, 4, 7}

\* lines 39-48: the entries test_cases may hold
TestCases == {[panel_w |-> t[1], panel_h |-> t[2], roof_w |-> t[3],
               roof_h |-> t[4], expected |-> e] :
                  t \in TestInputs, e \in TestExpected}

TestLists == UNION {[1..n -> TestCases] : n \in 0..MaxCases}

\* lines 37-51: the file is read into test_cases, the header is printed
Load ==
    /\ pc = "load"
    /\ test_cases' \in TestLists
    /\ pc' = "loop"
    /\ UNCHANGED <<args, locals, ret, raised, i, output>>

\* lines 53-57: the next test is taken and calculate_panels is entered,
\* or the list is exhausted and run_tests returns
LoopHead ==
    /\ pc = "loop"
    /\ IF i < Len(test_cases)
       THEN /\ i' = i + 1
            /\ panel_width' = test_cases[i + 1].panel_w
            /\ panel_height' = test_cases[i + 1].panel_h
            /\ roof_width' = test_cases[i + 1].roof_w
            /\ roof_height' = test_cases[i + 1].roof_h
            /\ x' = 0 /\ y' = 0 /\ a' = 0 /\ b' = 0
            /\ case1' = 0 /\ left1' = 0 /\ case2' = 0 /\ left2' = 0
            /\ ret' = 0
            /\ pc' = "normalize"
       ELSE /\ pc' = "done"
            /\ UNCHANGED <<args, locals, ret, i>>
    /\ UNCHANGED <<raised, test_cases, output>>

\* lines 58-64: the result is compared and the block of the test printed
ReportStopOnFail ==
    /\ pc = "returned"
    /\ output' = Append(output,
                        [test |-> i,
                         expected |-> test_cases[i].expected,
                         got |-> ret,
                         passed |-> (ret = test_cases[i].expected)])
    /\ pc' = IF ret = test_cases[i].expected THEN "loop" ELSE "done"
    /\ UNCHANGED <<args, locals, ret, raised, test_cases, i>>
Report ==
    /\ pc = "returned"
    /\ output' = Append(output,
                        [test |-> i,
                         expected |-> test_cases[i].expected,
                         got |-> ret,
                         passed |-> (ret = test_cases[i].expected)])
    /\ pc' = "loop"
    /\ UNCHANGED <<args, locals, ret, raised, test_cases, i>>

InitTests ==
    /\ panel_width = 0 /\ panel_height = 0
    /\ roof_width = 0 /\ roof_height = 0
    /\ Entry
    /\ pc = "load"
    /\ test_cases = <<>> /\ i = 0 /\ output = <<>>

NextTests ==
    \/ Load \/ LoopHead \/ Report
    \/ Normalize \/ Guard \/ Option1 \/ Option2 \/ Return

SpecTests == InitTests /\ [][NextTests]_vars

\* the interpreter runs the single thread to completion
FairSpecTests == SpecTests /\ WF_vars(NextTests)

----------------------------------------------------------------------------
(* Properties *)

Returned == pc = "returned"
Positive ==
    /\ panel_width > 0 /\ panel_height > 0
    /\ roof_width > 0 /\ roof_height > 0

\* the sides as the claims name them, taken from the arguments
LongPanel == Max2(panel_width, panel_height)
ShortPanel == Min2(panel_width, panel_height)
LongRoof == Max2(roof_width, roof_height)
ShortRoof == Min2(roof_width, roof_height)

\* C1: for positive inputs the returned value is max(case1, case2), with
\* case1 = (x div a)*(y div b) plus (y div a)*(L1 div b) when
\* L1 = x - (x div a)*a >= b, and case2 = (x div b)*(y div a) plus
\* (x div a)*(L2 div b) when L2 = y - (y div a)*a >= b.
C1_Formula ==
    (Returned /\ Positive) =>
        LET pa == LongPanel
            pb == ShortPanel
            rx == LongRoof
            ry == ShortRoof
            L1 == rx - (rx \div pa) * pa
            L2 == ry - (ry \div pa) * pa
            c1 == (rx \div pa) * (ry \div pb)
                  + (IF L1 >= pb THEN (ry \div pa) * (L1 \div pb) ELSE 0)
            c2 == (rx \div pb) * (ry \div pa)
                  + (IF L2 >= pb THEN (rx \div pa) * (L2 \div pb) ELSE 0)
        IN  ret = (IF c1 >= c2 THEN c1 ELSE c2)

\* a call where both leftover fills add panels and the two cases differ
C1_Witness ==
    /\ Returned /\ Positive
    /\ left1 >= b /\ left2 >= b
    /\ case1 > (x \div a) * (y \div b)
    /\ case2 > (x \div b) * (y \div a)
    /\ case1 # case2
    /\ ret = Max2(case1, case2)

\* C2: the orientation of the inputs does not matter: the value returned
\* for (pw, ph, rw, rh) is the value of the call with the panel sides
\* swapped, with the roof sides swapped, and with both swapped.
C2_Formula ==
    (pc \in {"returned", "raised"}) =>
        LET me == [raised |-> raised, value |-> ret]
        IN  /\ me = calculate_panels(panel_height, panel_width,
                                     roof_width, roof_height)
            /\ me = calculate_panels(panel_width, panel_height,
                                     roof_height, roof_width)
            /\ me = calculate_panels(panel_height, panel_width,
                                     roof_height, roof_width)

\* a call with unequal panel sides and unequal roof sides, given short side
\* first, that places panels
C2_Witness ==
    /\ Returned
    /\ panel_width < panel_height /\ roof_width < roof_height
    /\ ret > 0 /\ case1 # case2

\* C3: when at least one dimension is <= 0 the call returns 0, raises
\* nothing and executes no division (it never goes past the guard).
C3_Formula ==
    (panel_width <= 0 \/ panel_height <= 0
        \/ roof_width <= 0 \/ roof_height <= 0) =>
        /\ ~raised
        /\ pc \in {"normalize", "guard", "returned"}
        /\ (Returned => ret = 0)

\* calculate_panels(2, 1, 0, 5) has returned 0
C3_Witness ==
    /\ Returned /\ ~raised /\ ret = 0
    /\ panel_width = 2 /\ panel_height = 1
    /\ roof_width = 0 /\ roof_height = 5

\* C4: the returned value is a non-negative integer for every integer
\* input, positive or not.
C4_Formula == Returned => (ret \in Int /\ ret >= 0)

\* a call with a negative dimension next to positive ones has returned
C4_Witness ==
    /\ Returned /\ ret = 0
    /\ roof_width < 0 /\ roof_height > 0
    /\ panel_width > 0 /\ panel_height > 0

\* C5: for positive inputs where the panel sides divide the roof sides in
\* one of the two orientations, the returned value is (x*y) div (a*b).
C5_Formula ==
    (/\ Returned /\ Positive
     /\ \/ (LongRoof % LongPanel = 0 /\ ShortRoof % ShortPanel = 0)
        \/ (LongRoof % ShortPanel = 0 /\ ShortRoof % LongPanel = 0)) =>
        ret = (LongRoof * ShortRoof) \div (LongPanel * ShortPanel)

\* panel (2,1) on roof (4,2) gives 4
C5_Witness ==
    /\ Returned /\ ret = 4
    /\ panel_width = 2 /\ panel_height = 1
    /\ roof_width = 4 /\ roof_height = 2

\* C6: calculate_panels(3, 1, 5, 5) returns 7, with case1 = 7 and
\* case2 = 7.
C6_Formula ==
    (/\ Returned
     /\ panel_width = 3 /\ panel_height = 1
     /\ roof_width = 5 /\ roof_height = 5) =>
        (ret = 7 /\ case1 = 7 /\ case2 = 7)

\* the call (3, 1, 5, 5) has returned through the leftover fill of case 1
C6_Witness ==
    /\ Returned
    /\ panel_width = 3 /\ panel_height = 1
    /\ roof_width = 5 /\ roof_height = 5
    /\ left1 = 2 /\ ret = 7

\* the blocks printed so far are those of cases 1..Len(output), in file
\* order, each PASSED exactly when the call on its inputs equals expected
ReportedInOrder ==
    /\ Len(output) <= Len(test_cases)
    /\ Len(output) \in {i, i - 1}
    /\ \A k \in 1..Len(output) :
          LET t == test_cases[k]
              r == calculate_panels(t.panel_w, t.panel_h, t.roof_w, t.roof_h)
          IN  /\ output[k].test = k
              /\ ~r.raised
              /\ output[k].got = r.value
              /\ output[k].passed <=> (r.value = t.expected)

\* C7: run_tests evaluates every loaded case exactly once, in file order;
\* case i is reported PASSED iff calculate_panels on its inputs equals its
\* expected value, whatever the earlier outcomes; the run always reaches
\* the last case and ends with one block per case.
C7_Formula ==
    /\ []ReportedInOrder
    /\ [](pc = "done" => Len(output) = Len(test_cases))
    /\ <>(pc = "done")

\* a finished run whose first case failed and whose last case passed
C7_Witness ==
    /\ pc = "done"
    /\ Len(test_cases) = MaxCases
    /\ Len(output) = MaxCases
    /\ ~output[1].passed
    /\ output[MaxCases].passed

\* C8: for positive inputs the panels counted never exceed the roof by
\* area: result * pw * ph <= rw * rh, and so for case1 and case2.
C8_Formula ==
    (Returned /\ Positive) =>
        /\ ret * panel_width * panel_height <= roof_width * roof_height
        /\ case1 * panel_width * panel_height <= roof_width * roof_height
        /\ case2 * panel_width * panel_height <= roof_width * roof_height

\* a call whose leftover fill added panels and left roof area uncovered
C8_Witness ==
    /\ Returned /\ Positive
    /\ left1 >= b /\ case1 > (x \div a) * (y \div b)
    /\ ret > 0
    /\ ret * panel_width * panel_height < roof_width * roof_height

\* C9: for positive inputs the result is 0 iff the long panel side exceeds
\* the long roof side or the short panel side exceeds the short roof side;
\* whenever one panel fits the result is at least 1.
C9_Formula ==
    (Returned /\ Positive) =>
        /\ (ret = 0) <=> (LongPanel > LongRoof \/ ShortPanel > ShortRoof)
        /\ (LongPanel <= LongRoof /\ ShortPanel <= ShortRoof) => ret >= 1

\* a panel whose long side fits the long roof side but whose short side
\* does not fit the short roof side: result 0
C9_Witness ==
    /\ Returned /\ Positive /\ ret = 0
    /\ LongPanel <= LongRoof /\ ShortPanel > ShortRoof

\* C10: for positive inputs, a roof at least as wide and at least as high
\* never holds fewer panels.
C10_Formula ==
    (Returned /\ Positive) =>
        \A rw2 \in roof_width..MaxDim, rh2 \in roof_height..MaxDim :
            LET r == calculate_panels(panel_width, panel_height, rw2, rh2)
            IN  ~r.raised /\ ret <= r.value

\* a roof with a leftover strip in use, whose enlargement by one swaps the
\* long roof side and holds strictly more panels
C10_Witness ==
    /\ Returned /\ Positive
    /\ roof_width = roof_height + 1
    /\ roof_height + 2 <= MaxDim
    /\ left1 >= b /\ left1 > 0
    /\ ret > 0
    /\ ret < calculate_panels(panel_width, panel_height,
                              roof_width, roof_height + 2).value

====
